---- MODULE Spec2Model ----
(***************************************************************************)
(* A model of ioc-parser: the pattern registry (load_patterns), the        *)
(* extraction engine (parse_page, is_whitelisted), the text source         *)
(* adapters (parse_pdf_pypdf2, parse_pdf_pdfminer, parse_txt, parse_html), *)
(* the document driver (parse) and the output handlers of output.py.       *)
(***************************************************************************)
EXTENDS Naturals, Sequences, FiniteSets, TLC

VARIABLES
    pc,            \* position of the process: "ready", "walking", "done", "crashed", "fatal"
    patterns,      \* IOC_Parser.patterns: the registry, in insertion order
    handler,       \* class of self.handler: OutputHandler_<handler>
    warned,        \* getHandler printed its warning
    output_format, \* the format name handed to getHandler
    dedup,         \* self.dedup
    parser_func,   \* self.parser_func
    library,       \* self.library
    dedup_store,   \* self.dedup_store
    cnt,           \* OutputHandler_yara.cnt
    sids,          \* OutputHandler_yara.sids
    events,        \* calls made on the handler for the document in progress
    lines,         \* what the handler printed for the document in progress
    walk,          \* the directory walk has files that were not opened yet
    config,        \* the configuration read by load_patterns
    earlier,       \* (category, value) pairs passed to print_match for earlier documents
    last           \* the document last handed to an adapter, and how far it was read

vars == <<pc, patterns, handler, warned, output_format, dedup, parser_func, library,
          dedup_store, cnt, sids, events, lines, walk, config, earlier, last>>

\* ------------------------------------------------------------------------
\* Bounds of the model

MaxPages == 2   \* pages of one PDF document
MaxMatches == 12 \* matches printed per rule block when the yara handler is driven alone

\* ------------------------------------------------------------------------
\* Regular expressions (re.compile / findall), on a small pattern language:
\* a rule is a sequence of atoms `c` or `c?`; with groups >= 1 its first
\* capturing group spans atoms 1..g1 and with groups = 2 the second spans
\* atoms g1+1..g2.

Atom(c, opt) == [c |-> c, opt |-> opt]
Rule(atoms, groups, g1, g2) == [atoms |-> atoms, groups |-> groups, g1 |-> g1, g2 |-> g2]

NoMatch == [ok |-> FALSE, ends |-> <<>>]

\* The preferred (greedy, backtracking) match of atoms k.. at position pos:
\* ends[i] is the position after atom k+i-1.
RECURSIVE MatchFrom(_, _, _, _)
MatchFrom(atoms, k, text, pos) ==
    IF k > Len(atoms) THEN [ok |-> TRUE, ends |-> <<>>]
    ELSE LET a == atoms[k]
             eat == IF pos <= Len(text) /\ text[pos] = a.c
                    THEN MatchFrom(atoms, k + 1, text, pos + 1)
                    ELSE NoMatch
             skip == IF a.opt THEN MatchFrom(atoms, k + 1, text, pos) ELSE NoMatch
         IN  IF eat.ok THEN [ok |-> TRUE, ends |-> <<pos + 1>> \o eat.ends]
             ELSE IF skip.ok THEN [ok |-> TRUE, ends |-> <<pos>> \o skip.ends]
             ELSE NoMatch

EndOf(ends, i, start) == IF i = 0 THEN start ELSE ends[i]

\* What findall returns for one match: the whole match without groups, the
\* group with one group, the tuple of groups with more.
FindallItem(rule, text, start, ends) ==
    LET whole == SubSeq(text, start, EndOf(ends, Len(rule.atoms), start) - 1)
        grp1 == SubSeq(text, start, EndOf(ends, rule.g1, start) - 1)
        grp2 == SubSeq(text, EndOf(ends, rule.g1, start), EndOf(ends, rule.g2, start) - 1)
    IN  IF rule.groups = 0 THEN [isTuple |-> FALSE, val |-> whole, tup |-> <<>>]
        ELSE IF rule.groups = 1 THEN [isTuple |-> FALSE, val |-> grp1, tup |-> <<>>]
        ELSE [isTuple |-> TRUE, val |-> <<>>, tup |-> <<grp1, grp2>>]

\* All non-overlapping matches, left to right; an empty match advances by one.
RECURSIVE FindallFrom(_, _, _)
FindallFrom(rule, text, pos) ==
    IF pos > Len(text) + 1 THEN <<>>
    ELSE LET m == MatchFrom(rule.atoms, 1, text, pos)
             e == EndOf(m.ends, Len(rule.atoms), pos)
         IN  IF ~m.ok THEN FindallFrom(rule, text, pos + 1)
             ELSE <<FindallItem(rule, text, pos, m.ends)>>
                  \o FindallFrom(rule, text, IF e = pos THEN pos + 1 ELSE e)

findall(rule, text) == FindallFrom(rule, text, 1)

\* str.replace(old, new)
RECURSIVE Replace(_, _, _)
Replace(s, old, new) ==
    IF Len(s) < Len(old) \/ Len(old) = 0 THEN s
    ELSE IF SubSeq(s, 1, Len(old)) = old
         THEN new \o Replace(SubSeq(s, Len(old) + 1, Len(s)), old, new)
         ELSE <<s[1]>> \o Replace(Tail(s), old, new)

\* ------------------------------------------------------------------------
\* Output handlers (output.py).  A handler call is logged in `events`; what
\* the handler prints is logged in `lines`.  The handler's fields, the dedup
\* store and a pending exception travel in a record st.

Event(ev, path, page, name, value) ==
    [ev |-> ev, path |-> path, page |-> page, name |-> name, value |-> value]

Line(kind, path, page, name, text, ids) ==
    [kind |-> kind, path |-> path, page |-> page, name |-> name, text |-> text, ids |-> ids]

NoException == "none"

\* Format names are strings of characters, so that lower() is computed
CSV == <<"c", "s", "v">>
JSON == <<"j", "s", "o", "n">>
YARA == <<"y", "a", "r", "a">>
AUTOFOCUS == <<"a", "u", "t", "o", "f", "o", "c", "u", "s">>

OUTPUT_FORMATS == {CSV, JSON, YARA, AUTOFOCUS}

Digits == <<"0", "1", "2", "3", "4", "5", "6", "7", "8", "9">>

\* "%d" % n
RECURSIVE FormatInt(_)
FormatInt(n) ==
    IF n < 10 THEN Digits[n + 1] ELSE FormatInt(n \div 10) \o Digits[(n % 10) + 1]

Backslash == <<"\\">>

csv_print_match(st, fpath, page, name, match) ==
    [st EXCEPT !.lines = Append(@, Line("row", fpath, page, name, match, <<>>))]

csv_print_error(st, fpath) ==
    [st EXCEPT !.lines = Append(@, Line("row", fpath, 0, "error", <<>>, <<>>))]

json_print_match(st, fpath, page, name, match) ==
    [st EXCEPT !.lines = Append(@, Line("object", fpath, page, name, match, <<>>))]

\* json.dumps is handed the exception object itself, which it cannot serialise
json_print_error(st, fpath) == [st EXCEPT !.exc = "TypeError"]

yara_print_match(st, fpath, page, name, match) ==
    LET c == IF name \in DOMAIN st.cnt
             THEN [st.cnt EXCEPT ![name] = @ + 1]
             ELSE st.cnt @@ (name :> 1)
        string_id == "$" \o name \o FormatInt(c[name])
        string_value == Replace(match, Backslash, Backslash \o Backslash)
    IN  [st EXCEPT !.cnt = c,
                   !.sids = Append(@, string_id),
                   !.lines = Append(@, Line("string", fpath, page, name, string_value,
                                           <<string_id>>))]

yara_print_header(st, fpath) ==
    [st EXCEPT !.lines = Append(@, Line("rule", fpath, 0, "", <<>>, <<>>)),
               !.cnt = [n \in {} |-> 0],
               !.sids = <<>>]

yara_print_footer(st, fpath) ==
    [st EXCEPT !.lines = Append(@, Line("condition", fpath, 0, "", <<>>, st.sids))]

AutofocusField(name) ==
    CASE name = "MD5" -> "sample.md5"
      [] name = "SHA1" -> "sample.sha1"
      [] name = "SHA256" -> "sample.sha256"
      [] name = "URL" -> "sample.tasks.connection"
      [] name = "Host" -> "sample.tasks.dns"
      [] name = "IP" -> "sample.tasks.connection"

autofocus_print_match(st, fpath, page, name, match) ==
    LET string_value == Replace(Replace(match, <<"h", "x", "x", "p">>, <<"h", "t", "t", "p">>),
                                Backslash, Backslash \o Backslash)
    IN  IF name \in {"MD5", "SHA1", "SHA256", "URL", "Host", "IP"}
        THEN [st EXCEPT !.lines = Append(@, Line("clause", fpath, page, AutofocusField(name),
                                                string_value, <<>>))]
        ELSE IF name \in {"Registry", "Filepath", "Filename", "Email", "CVE"}
        THEN st
        ELSE [st EXCEPT !.exc = "UnboundLocalError"]   \* auto_focus_query was never bound

autofocus_print_header(st, fpath) ==
    [st EXCEPT !.lines = Append(@, Line("query", fpath, 0, "", <<>>, <<>>))]

autofocus_print_footer(st, fpath) ==
    [st EXCEPT !.lines = Append(@, Line("tag", fpath, 0, "", <<>>, <<>>))]

\* OutputHandler.print_error, inherited by the yara and autofocus handlers
base_print_error(st, fpath) ==
    [st EXCEPT !.lines = Append(@, Line("message", fpath, 0, "error", <<>>, <<>>))]

\* Dynamic dispatch on the class of self.handler
print_match(st, fpath, page, name, match) ==
    LET s == [st EXCEPT !.events = Append(@, Event("match", fpath, page, name, match))]
    IN  CASE handler = CSV -> csv_print_match(s, fpath, page, name, match)
          [] handler = JSON -> json_print_match(s, fpath, page, name, match)
          [] handler = YARA -> yara_print_match(s, fpath, page, name, match)
          [] handler = AUTOFOCUS -> autofocus_print_match(s, fpath, page, name, match)

print_header(st, fpath) ==
    LET s == [st EXCEPT !.events = Append(@, Event("header", fpath, 0, "", <<>>))]
    IN  CASE handler = YARA -> yara_print_header(s, fpath)
          [] handler = AUTOFOCUS -> autofocus_print_header(s, fpath)
          [] OTHER -> s

print_footer(st, fpath) ==
    LET s == [st EXCEPT !.events = Append(@, Event("footer", fpath, 0, "", <<>>))]
    IN  CASE handler = YARA -> yara_print_footer(s, fpath)
          [] handler = AUTOFOCUS -> autofocus_print_footer(s, fpath)
          [] OTHER -> s

print_error(st, fpath) ==
    LET s == [st EXCEPT !.events = Append(@, Event("error", fpath, 0, "", <<>>))]
    IN  CASE handler = CSV -> csv_print_error(s, fpath)
          [] handler = JSON -> json_print_error(s, fpath)
          [] OTHER -> base_print_error(s, fpath)

\* ------------------------------------------------------------------------
\* Whitelist store (whitelist.py): the rules per category; a category without
\* a whitelist source has no rules.

WhitelistSources == [IP |-> {Rule(<<Atom("b", FALSE)>>, 0, 0, 0)}]

whitelist(ind_type) ==
    IF ind_type \in DOMAIN WhitelistSources THEN WhitelistSources[ind_type] ELSE {}

\* ------------------------------------------------------------------------
\* Extraction engine (ioc-parser.py)

Raise(st, e) == [st EXCEPT !.exc = e]

\* is_whitelisted looking through the rules of every category
is_whitelisted_any_category(ind_match, ind_type) ==
    \E c \in DOMAIN WhitelistSources : \E w \in WhitelistSources[c] : findall(w, ind_match) # <<>>

is_whitelisted(ind_match, ind_type) ==
    \E w \in whitelist(ind_type) : findall(w, ind_match) # <<>>

RECURSIVE match_loop(_, _, _, _, _, _)
match_loop(st, fpath, page_num, ind_type, matches, i) ==
    IF st.exc # NoException \/ i > Len(matches) THEN st
    ELSE LET ind_match == IF matches[i].isTuple THEN matches[i].tup[1] ELSE matches[i].val
             stored == IF dedup
                       THEN [st EXCEPT !.dedup_store = @ \cup {<<ind_type, ind_match>>}]
                       ELSE st
         IN  IF is_whitelisted(ind_match, ind_type)
             THEN match_loop(st, fpath, page_num, ind_type, matches, i + 1)
             ELSE IF dedup /\ <<ind_type, ind_match>> \in st.dedup_store
             THEN match_loop(st, fpath, page_num, ind_type, matches, i + 1)
             ELSE match_loop(print_match(stored, fpath, page_num, ind_type, ind_match),
                             fpath, page_num, ind_type, matches, i + 1)

\* data is what the adapter read: its characters, and whether it is a bytes
\* object (a str pattern cannot be used on bytes: findall raises TypeError)
RECURSIVE pattern_loop(_, _, _, _, _)
pattern_loop(st, fpath, data, page_num, k) ==
    IF st.exc # NoException \/ k > Len(patterns) THEN st
    ELSE IF data.bytes THEN Raise(st, "TypeError")
    ELSE pattern_loop(match_loop(st, fpath, page_num, patterns[k].name,
                                 findall(patterns[k].rule, data.s), 1),
                      fpath, data, page_num, k + 1)

parse_page(st, fpath, data, page_num) == pattern_loop(st, fpath, data, page_num, 1)

\* ------------------------------------------------------------------------
\* Text source adapters.  A document is [loadFails, units]: loadFails says
\* that opening the document's structure fails (PdfFileReader, the parser
\* behind PDFPage.get_pages, f.read, BeautifulSoup); units are its pages, or
\* its one text for txt and html; a PageFail unit is a page whose text
\* extraction raises.

PageFail == <<"!">>

\* except Exception as e: self.handler.print_error(fpath, e)
Catch(st, fpath) ==
    IF st.exc = NoException THEN st
    ELSE print_error([st EXCEPT !.exc = NoException], fpath)

\* an adapter that forgets self.dedup_store = set()
ResetDedup_missing(st) == st

\* if self.dedup: self.dedup_store = set()
ResetDedup(st) == IF dedup THEN [st EXCEPT !.dedup_store = {}] ELSE st

\* for page in ...: page_num += 1; data = <text of page>; parse_page(...)
RECURSIVE page_loop(_, _, _, _)
page_loop(st, doc, fpath, page_num) ==
    IF st.exc # NoException \/ page_num > Len(doc.units) THEN st
    ELSE IF doc.units[page_num] = PageFail THEN Raise(st, "PageError")
    ELSE page_loop(parse_page([st EXCEPT !.read = @ + 1], fpath,
                              [bytes |-> FALSE, s |-> doc.units[page_num]], page_num),
                   doc, fpath, page_num + 1)

Footer(st, fpath) == IF st.exc = NoException THEN print_footer(st, fpath) ELSE st

parse_pdf_pypdf2(st, doc, fpath) ==
    Catch(IF doc.loadFails THEN Raise(st, "PdfReadError")
          ELSE Footer(page_loop(print_header(ResetDedup(st), fpath), doc, fpath, 1), fpath),
          fpath)

\* PDFPage.get_pages is a generator: the document is parsed when the loop
\* asks for the first page, after print_header
parse_pdf_pdfminer(st, doc, fpath) ==
    LET opened == print_header(ResetDedup(st), fpath)
    IN  Catch(IF doc.loadFails THEN Raise(opened, "PDFSyntaxError")
              ELSE Footer(page_loop(opened, doc, fpath, 1), fpath),
              fpath)

\* f was opened by parse() in mode "rb": f.read() returns bytes
parse_txt(st, doc, fpath) ==
    LET reset == ResetDedup(st)
        data == [bytes |-> TRUE, s |-> doc.units[1]]
    IN  Catch(IF doc.loadFails THEN Raise(reset, "IOError")
              ELSE Footer(parse_page(print_header([reset EXCEPT !.read = @ + 1], fpath),
                                     fpath, data, 1), fpath),
              fpath)

\* BeautifulSoup decodes the bytes; text is the visible text of the document
parse_html(st, doc, fpath) ==
    LET reset == ResetDedup(st)
        text == [bytes |-> FALSE, s |-> doc.units[1]]
    IN  Catch(IF doc.loadFails THEN Raise(reset, "ParserError")
              ELSE Footer(parse_page(print_header([reset EXCEPT !.read = @ + 1], fpath),
                                     fpath, text, 1), fpath),
              fpath)

\* parse_pdf rebinds self.parser_func to the library's adapter and calls it
parse_pdf_target == "parse_pdf_" \o library

\* self.parser_func(f, fpath)
CallParser(func, st, doc, fpath) ==
    CASE func = "parse_pdf" ->
           IF parse_pdf_target = "parse_pdf_pypdf2" THEN parse_pdf_pypdf2(st, doc, fpath)
           ELSE IF parse_pdf_target = "parse_pdf_pdfminer" THEN parse_pdf_pdfminer(st, doc, fpath)
           ELSE Raise(st, "NotImplementedError")
      [] func = "parse_pdf_pypdf2" -> parse_pdf_pypdf2(st, doc, fpath)
      [] func = "parse_pdf_pdfminer" -> parse_pdf_pdfminer(st, doc, fpath)
      [] func = "parse_txt" -> parse_txt(st, doc, fpath)
      [] func = "parse_html" -> parse_html(st, doc, fpath)

ParserAfter(func) ==
    IF func = "parse_pdf" /\ parse_pdf_target \in {"parse_pdf_pypdf2", "parse_pdf_pdfminer"}
    THEN parse_pdf_target ELSE func

\* ------------------------------------------------------------------------
\* Construction: getHandler (output.py) and load_patterns (ioc-parser.py)

UpperCase == <<"A", "B", "C", "D", "E", "F", "G", "H", "I", "J", "K", "L", "M",
               "N", "O", "P", "Q", "R", "S", "T", "U", "V", "W", "X", "Y", "Z">>
LowerCase == <<"a", "b", "c", "d", "e", "f", "g", "h", "i", "j", "k", "l", "m",
               "n", "o", "p", "q", "r", "s", "t", "u", "v", "w", "x", "y", "z">>

CharLower(c) ==
    IF \E i \in 1..Len(UpperCase) : UpperCase[i] = c
    THEN LowerCase[CHOOSE i \in 1..Len(UpperCase) : UpperCase[i] = c]
    ELSE c

CharUpper(c) ==
    IF \E i \in 1..Len(LowerCase) : LowerCase[i] = c
    THEN UpperCase[CHOOSE i \in 1..Len(LowerCase) : LowerCase[i] = c]
    ELSE c

\* str.lower()
lower(str) == [i \in 1..Len(str) |-> CharLower(str[i])]

\* The classes OutputHandler_<name> that output.py defines
HandlerClasses == {CSV, JSON, YARA, AUTOFOCUS}

NoHandler == <<>>

\* getHandler without output_format.lower()
getHandler_case_sensitive(format) ==
    LET valid == format \in OUTPUT_FORMATS
        handler_format == IF valid THEN format ELSE CSV
    IN  [handler |-> IF handler_format \in HandlerClasses THEN handler_format ELSE NoHandler,
         warned |-> ~valid,
         exc |-> IF handler_format \in HandlerClasses THEN NoException ELSE "AttributeError"]

getHandler(format) ==
    LET lowered == lower(format)
        valid == lowered \in OUTPUT_FORMATS
        handler_format == IF valid THEN lowered ELSE CSV
    IN  [handler |-> IF handler_format \in HandlerClasses THEN handler_format ELSE NoHandler,
         warned |-> ~valid,
         exc |-> IF handler_format \in HandlerClasses THEN NoException ELSE "AttributeError"]

\* A section of the configuration: its name, and its `pattern` option, which
\* is absent, empty, a string that does not compile, or the source of rule.
Section(name, option, rule) == [name |-> name, option |-> option, rule |-> rule]

RECURSIVE load_sections(_, _, _)
load_sections(cfg, k, acc) ==
    IF k > Len(cfg) THEN [patterns |-> acc, exc |-> NoException]
    ELSE IF cfg[k].option = "absent" THEN load_sections(cfg, k + 1, acc)   \* except: continue
    ELSE IF cfg[k].option = "empty" THEN load_sections(cfg, k + 1, acc)    \* if ind_pattern:
    ELSE IF cfg[k].option = "malformed" THEN [patterns |-> acc, exc |-> "re.error"]
    ELSE load_sections(cfg, k + 1,
                       Append(acc, [name |-> cfg[k].name, rule |-> cfg[k].rule]))

load_patterns(cfg) == load_sections(cfg, 1, <<>>)

\* ------------------------------------------------------------------------
\* Inputs

\* ab?      whole match
RuleIP == Rule(<<Atom("a", FALSE), Atom("b", TRUE)>>, 0, 0, 0)
\* (a?)(b)  two groups: findall returns tuples
RuleURL == Rule(<<Atom("a", TRUE), Atom("b", FALSE)>>, 2, 1, 2)
\* b
RuleBitcoin == Rule(<<Atom("b", FALSE)>>, 0, 0, 0)

SectionNames == <<"IP", "URL", "Bitcoin">>
SectionRules == <<RuleIP, RuleURL, RuleBitcoin>>
Options == {"absent", "empty", "malformed", "valid"}

ConfigOf(opts) == [k \in 1..Len(SectionNames) |-> Section(SectionNames[k], opts[k], SectionRules[k])]
FullConfig == ConfigOf(<<"valid", "valid", "valid">>)
Configs == {ConfigOf(opts) : opts \in [1..Len(SectionNames) -> Options]}

Texts == {<<"b", "a", "b">>, <<"a", "a">>}

SeqsUpTo(S, n) == UNION {[1..k -> S] : k \in 0..n}

Doc(loadFails, units) == [loadFails |-> loadFails, units |-> units]
NullDoc == Doc(TRUE, <<>>)
PdfDocs == {Doc(FALSE, u) : u \in SeqsUpTo(Texts \cup {PageFail}, MaxPages)} \cup {NullDoc}
FlatDocs == {Doc(FALSE, <<t>>) : t \in Texts} \cup {NullDoc}
DocsFor(func) == IF func \in {"parse_txt", "parse_html"} THEN FlatDocs ELSE PdfDocs

CaseVariants(base) ==
    {[i \in 1..Len(base) |-> IF up[i] THEN CharUpper(base[i]) ELSE base[i]] :
        up \in [1..Len(base) -> BOOLEAN]}
PrefixUpper(base) ==
    {[i \in 1..Len(base) |-> IF i <= k THEN CharUpper(base[i]) ELSE base[i]] : k \in 0..Len(base)}
FormatNames ==
    CaseVariants(CSV) \cup CaseVariants(JSON) \cup CaseVariants(YARA) \cup PrefixUpper(AUTOFOCUS)
    \cup CaseVariants(<<"x", "m", "l">>) \cup CaseVariants(<<"c", "s">>)
    \cup CaseVariants(<<"c", "s", "v", "s">>) \cup {<<>>, <<"c", "s", "v", " ">>, <<"1">>}

\* ------------------------------------------------------------------------
\* The state machine

DirPath == 0     \* the path handed to parse()
FilePath == 1    \* the path of a file found by the directory walk

NoDoc == [path |-> DirPath, opened |-> FALSE, doc |-> NullDoc, read |-> 0, func |-> ""]

\* IOC_Parser.__init__
Construct(source, format, input_format, lib, dd) ==
    LET loaded == load_patterns(source)
        h == getHandler(format)
        ok == loaded.exc = NoException /\ h.exc = NoException
    IN  /\ config = source
        /\ earlier = {}
        /\ patterns = loaded.patterns
        /\ pc = IF ok THEN "ready" ELSE "fatal"
        /\ output_format = format
        /\ handler = IF loaded.exc = NoException THEN h.handler ELSE NoHandler
        /\ warned = IF loaded.exc = NoException THEN h.warned ELSE FALSE
        /\ dedup = dd
        /\ parser_func = "parse_" \o input_format
        /\ library = lib
        /\ dedup_store = {}
        /\ cnt = [n \in {} |-> 0]
        /\ sids = <<>>
        /\ events = <<>>
        /\ lines = <<>>
        /\ walk = FALSE
        /\ last = NoDoc

Inputs == {<<"pdf", "pypdf2">>, <<"pdf", "pdfminer">>, <<"txt", "pdfminer">>, <<"html", "pdfminer">>}

Init ==
    \E format \in OUTPUT_FORMATS, inp \in Inputs, dd \in BOOLEAN :
        Construct(FullConfig, format, inp[1], inp[2], dd)

MatchPairs(evs) == {<<evs[i].name, evs[i].value>> : i \in {j \in 1..Len(evs) : evs[j].ev = "match"}}

\* The handler, dedup store and log at the start of a document
Start == [events |-> <<>>, lines |-> <<>>, dedup_store |-> dedup_store, cnt |-> cnt,
          sids |-> sids, exc |-> NoException, read |-> 0]

\* parse(): except Exception as e: self.handler.print_error(path, e)
Outer(st) == IF st.exc = NoException THEN st ELSE print_error([st EXCEPT !.exc = NoException], DirPath)

Commit(st) ==
    /\ events' = st.events
    /\ lines' = st.lines
    /\ dedup_store' = st.dedup_store
    /\ cnt' = st.cnt
    /\ sids' = st.sids

\* with open(path, "rb") as f: self.parser_func(f, path)
OpenAndParse(fpath, doc, openFails) ==
    IF openFails THEN Raise(Start, "IOError") ELSE CallParser(parser_func, Start, doc, fpath)

Processed(fpath, doc, openFails, st) ==
    [path |-> fpath, opened |-> ~openFails, doc |-> doc, read |-> st.read, func |-> parser_func]

\* parse(path), path a file
ParseFile ==
    /\ pc = "ready"
    /\ \E openFails \in BOOLEAN :
       \E doc \in IF openFails THEN {NullDoc} ELSE DocsFor(parser_func) :
          \E inner \in {OpenAndParse(DirPath, doc, openFails)} : \E final \in {Outer(inner)} :
              /\ Commit(final)
              /\ pc' = IF final.exc = NoException THEN "done" ELSE "crashed"
              /\ parser_func' = IF openFails THEN parser_func ELSE ParserAfter(parser_func)
              /\ last' = Processed(DirPath, doc, openFails, inner)
    /\ earlier' = earlier \cup MatchPairs(events)
    /\ UNCHANGED <<patterns, handler, warned, output_format, dedup, library, walk, config>>

\* parse(path), path a directory: os.walk and fnmatch.filter find files, or none
ParseDir ==
    /\ pc = "ready"
    /\ walk' \in BOOLEAN
    /\ pc' = "walking"
    /\ UNCHANGED <<patterns, handler, warned, output_format, dedup, parser_func, library,
                   dedup_store, cnt, sids, events, lines, config, earlier, last>>

\* One turn of the loop over the files of the walk.  An exception that
\* leaves the loop body is caught by parse(), which reports it and returns.
WalkFile ==
    /\ pc = "walking"
    /\ walk
    /\ \E openFails \in BOOLEAN :
       \E doc \in IF openFails THEN {NullDoc} ELSE DocsFor(parser_func) :
          \E inner \in {OpenAndParse(FilePath, doc, openFails)} : \E final \in {Outer(inner)} :
              /\ Commit(final)
              /\ pc' = IF final.exc # NoException THEN "crashed"
                       ELSE IF inner.exc # NoException THEN "done"
                       ELSE "walking"
              /\ parser_func' = IF openFails THEN parser_func ELSE ParserAfter(parser_func)
              /\ last' = Processed(FilePath, doc, openFails, inner)
    /\ walk' \in BOOLEAN
    /\ earlier' = earlier \cup MatchPairs(events)
    /\ UNCHANGED <<patterns, handler, warned, output_format, dedup, library, config>>

\* The walk is over: parse() returns
WalkReturn ==
    /\ pc = "walking"
    /\ ~walk
    /\ pc' = "done"
    /\ UNCHANGED <<patterns, handler, warned, output_format, dedup, parser_func, library,
                   dedup_store, cnt, sids, events, lines, walk, config, earlier, last>>

\* parse(path), path a URL (the fetch fails, or StringIO refuses r.content,
\* which is bytes) or neither file, directory nor URL (IOError)
ParseOther ==
    /\ pc = "ready"
    /\ \E final \in {Outer(Raise(Start, "Error"))} :
           /\ Commit(final)
           /\ pc' = IF final.exc = NoException THEN "done" ELSE "crashed"
    /\ UNCHANGED <<patterns, handler, warned, output_format, dedup, parser_func, library,
                   walk, config, earlier, last>>

Next == ParseFile \/ ParseDir \/ WalkFile \/ WalkReturn \/ ParseOther

Spec == Init /\ [][Next]_vars

\* A run with the csv handler
InitCsv ==
    \E inp \in Inputs, dd \in BOOLEAN : Construct(FullConfig, CSV, inp[1], inp[2], dd)

SpecCsv == InitCsv /\ [][Next]_vars

\* A run that loads any configuration of the three sections
InitLoad ==
    \E source \in Configs : Construct(source, CSV, "html", "pdfminer", FALSE)

SpecLoad == InitLoad /\ [][Next]_vars

\* A run whose output format is any name of FormatNames
InitFormat ==
    \E format \in FormatNames : Construct(FullConfig, format, "html", "pdfminer", FALSE)

SpecFormat == InitFormat /\ [][Next]_vars

\* ------------------------------------------------------------------------
\* The yara handler driven alone, the way every adapter drives a handler:
\* print_header, any number of print_match, print_footer, per document.

YaraNames == {"SHA", "SHA1"}

InitYara ==
    /\ Construct(FullConfig, YARA, "pdf", "pdfminer", FALSE)
    /\ pc = "ready"

Current == [Start EXCEPT !.events = events, !.lines = lines]

YaraHeader ==
    /\ pc \in {"ready", "closed"}
    /\ Commit(print_header(Start, DirPath))
    /\ pc' = "open"
    /\ UNCHANGED <<patterns, handler, warned, output_format, dedup, parser_func, library,
                   walk, config, earlier, last>>

YaraMatch ==
    /\ pc = "open"
    /\ Len(sids) < MaxMatches
    /\ \E name \in YaraNames : Commit(print_match(Current, DirPath, 1, name, <<"a">>))
    /\ UNCHANGED <<pc, patterns, handler, warned, output_format, dedup, parser_func, library,
                   walk, config, earlier, last>>

YaraFooter ==
    /\ pc = "open"
    /\ Commit(print_footer(Current, DirPath))
    /\ pc' = "closed"
    /\ UNCHANGED <<patterns, handler, warned, output_format, dedup, parser_func, library,
                   walk, config, earlier, last>>

NextYara == YaraHeader \/ YaraMatch \/ YaraFooter

SpecYara == InitYara /\ [][NextYara]_vars

\* ------------------------------------------------------------------------
\* Vocabulary of the properties

IsMatch(evs, i) == evs[i].ev = "match"
PairAt(evs, i) == <<evs[i].name, evs[i].value>>
HasEvent(evs, kind) == \E i \in 1..Len(evs) : evs[i].ev = kind

\* The last document was opened and its block was closed by print_footer
Completed == last.opened /\ HasEvent(events, "footer")

CandidateOf(item) == IF item.isTuple THEN item.tup[1] ELSE item.val

\* The (category, candidate) pairs that the registry finds in a document
DocCandidates(doc) ==
    {pr \in UNION {UNION {{<<patterns[p].name, CandidateOf(findall(patterns[p].rule, doc.units[k])[i])>> :
                              i \in 1..Len(findall(patterns[p].rule, doc.units[k]))} :
                          p \in 1..Len(patterns)} :
                   k \in {u \in 1..Len(doc.units) : doc.units[u] # PageFail}} : TRUE}

\* The positions a rule can reach in s after its first k-1 atoms, from the set P
RECURSIVE Reach(_, _, _, _)
Reach(atoms, k, str, P) ==
    IF k > Len(atoms) THEN P
    ELSE Reach(atoms, k + 1, str,
               {q + 1 : q \in {r \in P : r <= Len(str) /\ str[r] = atoms[k].c}}
               \cup (IF atoms[k].opt THEN P ELSE {}))

\* The rule matches the whole of str
FullMatch(rule, str) == (Len(str) + 1) \in Reach(rule.atoms, 1, str, {1})

\* Some whitelist rule of the category matches some substring of the value
WhitelistedBySpec(category, value) ==
    \E w \in whitelist(category) :
        \E i \in 1..(Len(value) + 1) : \E j \in (i - 1)..Len(value) :
            FullMatch(w, SubSeq(value, i, j))

\* ------------------------------------------------------------------------
\* Properties

\* C1: with deduplication enabled, no (category, value) pair is passed to
\* print_match twice for the same document, and a pair already emitted for an
\* earlier document is emitted again when a later, completed document holds it
\* (unless it is whitelisted).
C1_DedupPerDocument ==
    dedup =>
        /\ \A i, j \in 1..Len(events) :
              (i < j /\ IsMatch(events, i) /\ IsMatch(events, j))
                  => PairAt(events, i) # PairAt(events, j)
        /\ Completed =>
              \A pr \in earlier \cap DocCandidates(last.doc) :
                  ~WhitelistedBySpec(pr[1], pr[2]) => pr \in MatchPairs(events)

\* A second document of a walk repeats, twice on one page, a pair that an
\* earlier document emitted, and the pair is emitted once for it
C1_Witness ==
    /\ dedup
    /\ Completed
    /\ last.path = FilePath
    /\ last.doc.units = <<(<<"a", "a">>)>>
    /\ <<"IP", <<"a">>>> \in earlier
    /\ Cardinality({i \in 1..Len(events) :
                       IsMatch(events, i) /\ PairAt(events, i) = <<"IP", <<"a">>>>}) = 1

\* C2: in a directory walk, a failure on one file is reported with that file's
\* own path, and the walk does not end while files remain.
C2_WalkSurvivesFailure ==
    last.path # DirPath =>
        /\ \A i \in 1..Len(events) : events[i].ev = "error" => events[i].path = last.path
        /\ pc \in {"done", "crashed"} => ~walk

\* The last document is corrupt: it fails before any text unit was read from it
FailsBeforeText ==
    /\ last.opened
    /\ last.read = 0
    /\ last.doc.loadFails

\* C3: a document that fails before any text unit was read from it yields
\* error events only: neither print_header nor print_footer is called for it.
C3_ErrorOnly ==
    FailsBeforeText =>
        /\ HasEvent(events, "error")
        /\ \A i \in 1..Len(events) : events[i].ev = "error"

\* C4: load_patterns completes whatever the sections hold, and the registry
\* is exactly the sections whose pattern is valid.
C4_LoadNeverFails ==
    /\ pc # "fatal"
    /\ {patterns[i].name : i \in 1..Len(patterns)}
           = {config[k].name : k \in {n \in 1..Len(config) : config[n].option = "valid"}}

SameIgnoringCase(str, name) ==
    /\ Len(str) = Len(name)
    /\ \A i \in 1..Len(str) : CharUpper(str[i]) = CharUpper(name[i])

\* C5: getHandler returns a handler for every name; a name that is csv, json,
\* yara or autofocus in any letter case selects that handler without warning,
\* and every other name selects the csv handler after a warning.
C5_GetHandlerTotal ==
    /\ pc # "fatal"
    /\ handler \in HandlerClasses
    /\ \A name \in OUTPUT_FORMATS :
          SameIgnoringCase(output_format, name) => (handler = name /\ ~warned)
    /\ (\A name \in OUTPUT_FORMATS : ~SameIgnoringCase(output_format, name))
          => (handler = CSV /\ warned)

\* A mixed-case name selected its handler, which then served a document
C5_Witness ==
    /\ output_format = <<"Y", "a", "R", "a">>
    /\ handler = YARA
    /\ ~warned
    /\ \E i \in 1..Len(lines) : lines[i].kind = "condition"

\* C6: no match event carries an empty value.
C6_NoEmptyCandidate ==
    \A i \in 1..Len(events) : IsMatch(events, i) => events[i].value # <<>>

\* C7: nothing emitted or stored for deduplication is whitelisted for its own
\* category, and in a completed document a candidate is emitted if and only
\* if no whitelist rule of its own category matches a substring of it.
C7_WhitelistExact ==
    /\ \A pr \in MatchPairs(events) \cup dedup_store : ~WhitelistedBySpec(pr[1], pr[2])
    /\ Completed =>
          \A pr \in DocCandidates(last.doc) :
              (pr \in MatchPairs(events)) <=> ~WhitelistedBySpec(pr[1], pr[2])

\* A completed document held a whitelisted IP candidate, which was dropped,
\* and a Bitcoin candidate that the IP whitelist matches, which was emitted
C7_Witness ==
    /\ Completed
    /\ last.doc.units = <<(<<"b", "a", "b">>)>>
    /\ <<"IP", <<"a", "b">>>> \in DocCandidates(last.doc)
    /\ <<"IP", <<"a", "b">>>> \notin MatchPairs(events)
    /\ WhitelistedBySpec("IP", <<"b">>)
    /\ <<"Bitcoin", <<"b">>>> \in MatchPairs(events)

StringLines(ls) == {i \in 1..Len(ls) : ls[i].kind = "string"}

\* C8: the string identifiers printed for one rule block are pairwise
\* distinct, and the condition lists exactly those identifiers.
C8_DistinctIdentifiers ==
    handler = YARA =>
        /\ \A i, j \in StringLines(lines) : i # j => lines[i].ids # lines[j].ids
        /\ \A c \in 1..Len(lines) :
              lines[c].kind = "condition" =>
                  /\ Len(lines[c].ids) = Cardinality({i \in StringLines(lines) : i < c})
                  /\ \A i \in StringLines(lines) : \E n \in 1..Len(lines[c].ids) :
                        <<lines[c].ids[n]>> = lines[i].ids

\* C9: every print_header is followed by print_footer for the same path,
\* with only match events of that path in between.
C9_HeaderFooterPaired ==
    \A i \in 1..Len(events) :
        events[i].ev = "header" =>
            \E j \in (i + 1)..Len(events) :
                /\ events[j].ev = "footer"
                /\ events[j].path = events[i].path
                /\ \A k \in (i + 1)..(j - 1) :
                      IsMatch(events, k) /\ events[k].path = events[i].path

\* Every unit of the last document could be read as text
Readable ==
    /\ last.opened
    /\ last.func # "parse_txt"
    /\ ~last.doc.loadFails
    /\ \A k \in 1..Len(last.doc.units) : last.doc.units[k] # PageFail

\* C10: the autofocus print_match never raises: a readable document yields
\* no error event and keeps its footer, whatever categories it matches.
C10_AutofocusTotal ==
    (handler = AUTOFOCUS /\ Readable) =>
        (~HasEvent(events, "error") /\ HasEvent(events, "footer"))

====
